---------------------------- MODULE Spec2Model ----------------------------
(***************************************************************************)
(* A model of the three command-line tools of the repository:              *)
(*                                                                         *)
(*   resources/mgv_imc_image_injection.py   replaces the zephyr payload    *)
(*       embedded in an NVM image (specification Spec);                    *)
(*   ai_insights.py   asks a remote API for a fix, under a timeout         *)
(*       (specification SpecInsights);                                     *)
(*   resources/imc_steps_manager.py   reads the build steps of a JSON      *)
(*       file (specification SpecSteps).                                   *)
(*                                                                         *)
(* Each tool is one process run; a specification runs one tool and leaves  *)
(* the variables of the other two at their idle values.                    *)
(***************************************************************************)
EXTENDS Integers, Sequences, FiniteSets

VARIABLES
    \* ---- mgv_imc_image_injection.py ----
    fs,                     \* the file system: path -> file
    fs0,                    \* the file system as it was before main ran
    args,                   \* the parsed command line: nvm, zephyr, output
    pc,                     \* the line main is about to run
    UBOOT_high, UBOOT_low, UBOOT_pointer_address,
    size, u_boot_pointer_address, bl3_size,
    zephyr_size_pointer, zephyr_size, zephyr_actual_offset,
    injection_data,         \* the bytes read from args.zephyr
    original_pos,           \* the position of original_file
    header_pos,             \* new_file's position when the header is written
    \* ---- ai_insights.py ----
    ipc,                    \* the line the main thread is about to run
    argv,                   \* what the command line and the environment give
    timeout,                \* int(sys.argv[3])
    clock,                  \* seconds elapsed inside future.result
    worker,                 \* the state of the executor's worker thread
    response,               \* what the API call produced
    insights,               \* the value future.result returned
    printed,                \* what has been printed on stdout
    istatus,                \* the exit status of the process
    \* ---- imc_steps_manager.py ----
    spc,                    \* the line main is about to run
    json_file,              \* the file named by the command's argument
    result,                 \* the value eval(command) returned
    sstatus                 \* the exit status of the process

injVars == << fs, fs0, args, pc, UBOOT_high, UBOOT_low, UBOOT_pointer_address,
              size, u_boot_pointer_address, bl3_size, zephyr_size_pointer,
              zephyr_size, zephyr_actual_offset, injection_data,
              original_pos, header_pos >>
insVars == << ipc, argv, timeout, clock, worker, response, insights,
              printed, istatus >>
stpVars == << spc, json_file, result, sstatus >>
vars == << injVars, insVars, stpVars >>

---------------------------------------------------------------------------
(* Bounds of the model.                                                    *)

\* The largest word count stored in a size header of a generated image.
MaxWords == 2
\* The largest number of bytes cut off the end of a generated image.
MaxCut == 5
\* The largest replacement payload, in bytes.
MaxPayload == 7

Min(a, b) == IF a <= b THEN a ELSE b

---------------------------------------------------------------------------
(* Byte strings.  A value of Python's bytes type is held as the number of  *)
(* its leading zero bytes (pad) and the bytes from the first non-zero one  *)
(* on (data): an NVM image starts with 29138 bytes the tool never looks    *)
(* at, and this keeps them out of the state.  Every operation returns the  *)
(* one representation of its result, so = is equality of byte strings.     *)

LeadingZeros(s) ==
    IF \A i \in 1..Len(s) : s[i] = 0
    THEN Len(s)
    ELSE (CHOOSE i \in 1..Len(s) : s[i] # 0 /\ \A j \in 1..(i - 1) : s[j] = 0) - 1

\* b'...' : the byte string of a sequence of byte values.
Bytes(s) ==
    LET k == LeadingZeros(s)
    IN  [pad |-> k, data |-> SubSeq(s, k + 1, Len(s))]

Empty == [pad |-> 0, data |-> << >>]

\* bytes(n) : n zero bytes.
Zeros(n) == [pad |-> n, data |-> << >>]

\* len(b)
BLen(b) == b.pad + Len(b.data)

\* b[i], i counted from 0.
ByteAt(b, i) == IF i < b.pad THEN 0 ELSE b.data[i - b.pad + 1]

\* a + b
Concat(a, b) ==
    IF Len(a.data) = 0
    THEN [pad |-> a.pad + b.pad, data |-> b.data]
    ELSE [pad |-> a.pad,
          data |-> a.data \o [i \in 1..b.pad |-> 0] \o b.data]

\* b[lo:hi] for 0 <= lo; hi is clipped to len(b) as a Python slice is.
Slice(b, lo, hi) ==
    LET h == Min(hi, BLen(b))
    IN  IF lo >= h
        THEN Empty
        ELSE IF h <= b.pad
        THEN Zeros(h - lo)
        ELSE IF lo < b.pad
        THEN [pad |-> b.pad - lo, data |-> SubSeq(b.data, 1, h - b.pad)]
        ELSE Bytes(SubSeq(b.data, lo - b.pad + 1, h - b.pad))

\* b[lo:]
SliceFrom(b, lo) == Slice(b, lo, BLen(b))

---------------------------------------------------------------------------
(* Files.                                                                  *)

NoFile == [exists |-> FALSE, bytes |-> Empty]
File(b) == [exists |-> TRUE, bytes |-> b]

\* file.seek(offset); file.read(size): a read that starts at or runs past
\* the end of the file returns the bytes there are, without an error.
FileRead(file, offset, n) == Slice(file.bytes, offset, offset + n)

\* int.from_bytes(data, 'little') for the at most 4 bytes read_field reads:
\* a short string is decoded as it stands, the empty one as 0.
FromBytesLittle(data) ==
    LET V(i) == IF i < BLen(data) THEN ByteAt(data, i) ELSE 0
    IN  V(0) + 256 * V(1) + 65536 * V(2) + 16777216 * V(3)

read_field(file, offset, n) == FromBytesLittle(FileRead(file, offset, n))

WORDS_TO_BYTES(address) == address * 2

\* n // 2, the integer division a slip would write for math.ceil(n / 2).
FloorHalf(n) == n \div 2
\* math.ceil(n / 2)
CeilHalf(n) == IF 2 * (n \div 2) = n THEN n \div 2 ELSE n \div 2 + 1

\* v.to_bytes(4, byteorder='little'); every length the model can hold is
\* below 2^32 words, so the conversion never overflows here.
ToBytes4(v) ==
    Bytes(<< v % 256, (v \div 256) % 256, (v \div 65536) % 256,
             (v \div 16777216) % 256 >>)

\* Program constants of main.
UBOOT_high_ptr_words == 14570
UBOOT_low_ptr_words == 14569
inner_nvm_section_offset == 14336
UBOOT_high_ptr_address == WORDS_TO_BYTES(UBOOT_high_ptr_words)
UBOOT_low_ptr_address == WORDS_TO_BYTES(UBOOT_low_ptr_words)


---------------------------------------------------------------------------
(* The inputs of mgv_imc_image_injection.py.                               *)

Paths == {"nvm", "zephyr", "out"}

\* n bytes of content, base + 1, base + 2, ...
Data(n, base) == [i \in 1..n |-> base + i]

\* A 4-byte little-endian size header holding a small word count.
Header(words) == << words, 0, 0, 0 >>

\* An NVM image in the layout main walks: zero bytes up to the UBOOT pointer
\* fields, the pointer (low = 0x00EB, high = 0: the size field follows the
\* pointer fields), the BL31 blob with its size field and one more header
\* word pair, then the u-boot container: <bl3 size> <bl3 data>
\* <zephyr size> <zephyr data>, then tl trailing bytes.
NvmImage(w1, wb, wz, tl) ==
    Concat(Zeros(UBOOT_low_ptr_address),
           Bytes(<< 235, 0, 0, 0 >>
                 \o Header(w1) \o Data(2 * w1 + 4, 16)
                 \o Header(wb) \o Data(2 * wb, 32)
                 \o Header(wz) \o Data(2 * wz, 48)
                 \o Data(tl, 160)))

\* The images main is run on: every layout within the bounds, whole or with
\* up to MaxCut bytes missing at the end, and the empty file.
Images ==
    { Slice(NvmImage(w1, wb, wz, tl), 0,
            BLen(NvmImage(w1, wb, wz, tl)) - cut) :
        w1 \in {0, 1}, wb \in {0, 1}, wz \in 0..MaxWords,
        tl \in {0, 2}, cut \in 0..MaxCut }
    \cup { Empty }

\* The replacement payloads: the first n bytes of the content the generated
\* images hold as their zephyr payload, and n bytes found in no image.
Payloads ==
    { Bytes(Data(n, 48)) : n \in 0..MaxPayload }
    \cup { Bytes(Data(n, 192)) : n \in 1..MaxPayload }

InitInjection ==
    /\ args \in [nvm : {"nvm"}, zephyr : {"zephyr"}, output : Paths]
    /\ \E image \in {File(b) : b \in Images} \cup {NoFile},
          payload \in {File(b) : b \in Payloads} \cup {NoFile},
          old \in {NoFile, File(Bytes(<< 153 >>))} :
          fs = [p \in Paths |->
                  IF p = "nvm" THEN image
                  ELSE IF p = "zephyr" THEN payload
                  ELSE old]
    /\ fs0 = fs
    /\ pc = "L38"
    /\ UBOOT_high = 0 /\ UBOOT_low = 0 /\ UBOOT_pointer_address = 0
    /\ size = 0 /\ u_boot_pointer_address = 0 /\ bl3_size = 0
    /\ zephyr_size_pointer = 0 /\ zephyr_size = 0
    /\ zephyr_actual_offset = 0
    /\ injection_data = Empty
    /\ original_pos = 0
    /\ header_pos = 0

IdleInjection ==
    /\ args = [nvm |-> "nvm", zephyr |-> "zephyr", output |-> "out"]
    /\ fs = [p \in Paths |-> NoFile]
    /\ fs0 = fs
    /\ pc = "idle"
    /\ UBOOT_high = 0 /\ UBOOT_low = 0 /\ UBOOT_pointer_address = 0
    /\ size = 0 /\ u_boot_pointer_address = 0 /\ bl3_size = 0
    /\ zephyr_size_pointer = 0 /\ zephyr_size = 0
    /\ zephyr_actual_offset = 0
    /\ injection_data = Empty
    /\ original_pos = 0
    /\ header_pos = 0

---------------------------------------------------------------------------
(* main of mgv_imc_image_injection.py, one action per file operation.      *)

\* new_file.write(data): new_file was opened 'wb' and is written at its end.
WriteOut(data) ==
    fs' = [fs EXCEPT ![args.output] =
              File(Concat(fs[args.output].bytes, data))]

\* Lines 38-42: the two halves of the UBOOT pointer and the byte address.
ReadUbootPointers ==
    /\ pc = "L38"
    /\ fs[args.nvm].exists
    /\ UBOOT_high' = read_field(fs[args.nvm], UBOOT_high_ptr_address, 2)
    /\ UBOOT_low' = read_field(fs[args.nvm], UBOOT_low_ptr_address, 2)
    /\ UBOOT_pointer_address' =
          WORDS_TO_BYTES(UBOOT_high' * 65536 + UBOOT_low'
                         + inner_nvm_section_offset)
    /\ pc' = "L46"
    /\ UNCHANGED << fs, fs0, args, size, u_boot_pointer_address, bl3_size,
                    zephyr_size_pointer, zephyr_size, zephyr_actual_offset,
                    injection_data, original_pos, header_pos >>
    /\ UNCHANGED << insVars, stpVars >>

\* Line 38, open in read_field: the image is not there (FileNotFoundError).
ImageNotFound ==
    /\ pc = "L38"
    /\ ~fs[args.nvm].exists
    /\ pc' = "failed"
    /\ UNCHANGED << fs, fs0, args, UBOOT_high, UBOOT_low,
                    UBOOT_pointer_address, size, u_boot_pointer_address,
                    bl3_size, zephyr_size_pointer, zephyr_size,
                    zephyr_actual_offset, injection_data, original_pos,
                    header_pos >>
    /\ UNCHANGED << insVars, stpVars >>

\* Lines 46-48: the BL31 size and the address of the u-boot container.
ReadBl31Size ==
    /\ pc = "L46"
    /\ size' = WORDS_TO_BYTES(read_field(fs[args.nvm], UBOOT_pointer_address, 4))
    /\ u_boot_pointer_address' = UBOOT_pointer_address + size' + 4 + 4
    /\ pc' = "L54"
    /\ UNCHANGED << fs, fs0, args, UBOOT_high, UBOOT_low,
                    UBOOT_pointer_address, bl3_size, zephyr_size_pointer,
                    zephyr_size, zephyr_actual_offset, injection_data,
                    original_pos, header_pos >>
    /\ UNCHANGED << insVars, stpVars >>

\* Lines 54-55: the bl3 size and the address of the zephyr size header.
ReadBl3Size ==
    /\ pc = "L54"
    /\ bl3_size' = WORDS_TO_BYTES(read_field(fs[args.nvm], u_boot_pointer_address, 4))
    /\ zephyr_size_pointer' = u_boot_pointer_address + 4 + bl3_size'
    /\ pc' = "L56"
    /\ UNCHANGED << fs, fs0, args, UBOOT_high, UBOOT_low,
                    UBOOT_pointer_address, size, u_boot_pointer_address,
                    zephyr_size, zephyr_actual_offset, injection_data,
                    original_pos, header_pos >>
    /\ UNCHANGED << insVars, stpVars >>

\* Lines 56-64: the zephyr size and the offset of the zephyr data.
ReadZephyrSize ==
    /\ pc = "L56"
    /\ zephyr_size' = WORDS_TO_BYTES(read_field(fs[args.nvm], zephyr_size_pointer, 4))
    /\ zephyr_actual_offset' = zephyr_size_pointer + 4
    /\ pc' = "L68"
    /\ UNCHANGED << fs, fs0, args, UBOOT_high, UBOOT_low,
                    UBOOT_pointer_address, size, u_boot_pointer_address,
                    bl3_size, zephyr_size_pointer, injection_data,
                    original_pos, header_pos >>
    /\ UNCHANGED << insVars, stpVars >>

\* Lines 68-69: the whole replacement payload.
ReadInjection ==
    /\ pc = "L68"
    /\ fs[args.zephyr].exists
    /\ injection_data' = fs[args.zephyr].bytes
    /\ pc' = "L71"
    /\ UNCHANGED << fs, fs0, args, UBOOT_high, UBOOT_low,
                    UBOOT_pointer_address, size, u_boot_pointer_address,
                    bl3_size, zephyr_size_pointer, zephyr_size,
                    zephyr_actual_offset, original_pos, header_pos >>
    /\ UNCHANGED << insVars, stpVars >>

\* Line 68: the payload file is not there (FileNotFoundError).
InjectionNotFound ==
    /\ pc = "L68"
    /\ ~fs[args.zephyr].exists
    /\ pc' = "failed"
    /\ UNCHANGED << fs, fs0, args, UBOOT_high, UBOOT_low,
                    UBOOT_pointer_address, size, u_boot_pointer_address,
                    bl3_size, zephyr_size_pointer, zephyr_size,
                    zephyr_actual_offset, injection_data, original_pos,
                    header_pos >>
    /\ UNCHANGED << insVars, stpVars >>

\* Line 71: open(args.output, 'wb') creates the file or truncates it.
OpenOutput ==
    /\ pc = "L71"
    /\ fs' = [fs EXCEPT ![args.output] = File(Empty)]
    /\ pc' = "L72"
    /\ UNCHANGED << fs0, args, UBOOT_high, UBOOT_low, UBOOT_pointer_address,
                    size, u_boot_pointer_address, bl3_size,
                    zephyr_size_pointer, zephyr_size, zephyr_actual_offset,
                    injection_data, original_pos, header_pos >>
    /\ UNCHANGED << insVars, stpVars >>

\* Line 72: open(image_path, 'rb').
OpenOriginal ==
    /\ pc = "L72"
    /\ fs[args.nvm].exists
    /\ original_pos' = 0
    /\ pc' = "L73"
    /\ UNCHANGED << fs, fs0, args, UBOOT_high, UBOOT_low,
                    UBOOT_pointer_address, size, u_boot_pointer_address,
                    bl3_size, zephyr_size_pointer, zephyr_size,
                    zephyr_actual_offset, injection_data, header_pos >>
    /\ UNCHANGED << insVars, stpVars >>

\* Line 73: new_file.write(original_file.read(zephyr_size_pointer)).
CopyPrefix ==
    /\ pc = "L73"
    /\ LET data == FileRead(fs[args.nvm], original_pos, zephyr_size_pointer)
       IN  /\ WriteOut(data)
           /\ original_pos' = original_pos + BLen(data)
    /\ pc' = "L74"
    /\ UNCHANGED << fs0, args, UBOOT_high, UBOOT_low, UBOOT_pointer_address,
                    size, u_boot_pointer_address, bl3_size,
                    zephyr_size_pointer, zephyr_size, zephyr_actual_offset,
                    injection_data, header_pos >>
    /\ UNCHANGED << insVars, stpVars >>

\* Line 74: the 4-byte word count of the replacement payload.
WriteHeader ==
    /\ pc = "L74"
    /\ header_pos' = BLen(fs[args.output].bytes)
    /\ WriteOut(ToBytes4(CeilHalf(BLen(injection_data))))
    /\ pc' = "L75"
    /\ UNCHANGED << fs0, args, UBOOT_high, UBOOT_low, UBOOT_pointer_address,
                    size, u_boot_pointer_address, bl3_size,
                    zephyr_size_pointer, zephyr_size, zephyr_actual_offset,
                    injection_data, original_pos >>
    /\ UNCHANGED << insVars, stpVars >>

\* Line 75: new_file.write(injection_data).
WritePayload ==
    /\ pc = "L75"
    /\ WriteOut(injection_data)
    /\ pc' = "L76"
    /\ UNCHANGED << fs0, args, UBOOT_high, UBOOT_low, UBOOT_pointer_address,
                    size, u_boot_pointer_address, bl3_size,
                    zephyr_size_pointer, zephyr_size, zephyr_actual_offset,
                    injection_data, original_pos, header_pos >>
    /\ UNCHANGED << insVars, stpVars >>

\* Line 76: original_file.seek(zephyr_actual_offset + len(injection_data)).
SeekOriginal ==
    /\ pc = "L76"
    /\ original_pos' = zephyr_actual_offset + BLen(injection_data)
    /\ pc' = "L77"
    /\ UNCHANGED << fs, fs0, args, UBOOT_high, UBOOT_low,
                    UBOOT_pointer_address, size, u_boot_pointer_address,
                    bl3_size, zephyr_size_pointer, zephyr_size,
                    zephyr_actual_offset, injection_data, header_pos >>
    /\ UNCHANGED << insVars, stpVars >>

\* Line 77: new_file.write(original_file.read()), then both files close.
CopyTrailing ==
    /\ pc = "L77"
    /\ LET data == SliceFrom(fs[args.nvm].bytes, original_pos)
       IN  /\ WriteOut(data)
           /\ original_pos' = original_pos + BLen(data)
    /\ pc' = "done"
    /\ UNCHANGED << fs0, args, UBOOT_high, UBOOT_low, UBOOT_pointer_address,
                    size, u_boot_pointer_address, bl3_size,
                    zephyr_size_pointer, zephyr_size, zephyr_actual_offset,
                    injection_data, header_pos >>
    /\ UNCHANGED << insVars, stpVars >>

\* A read of a file that the operating system fails (OSError): main catches
\* nothing, so the exception ends the run; the with blocks close the files,
\* which keeps what was written so far.
ReadError ==
    /\ pc \in {"L38", "L46", "L54", "L56", "L68", "L73", "L77"}
    /\ pc = "L38" => fs[args.nvm].exists
    /\ pc = "L68" => fs[args.zephyr].exists
    /\ pc' = "failed"
    /\ UNCHANGED << fs, fs0, args, UBOOT_high, UBOOT_low,
                    UBOOT_pointer_address, size, u_boot_pointer_address,
                    bl3_size, zephyr_size_pointer, zephyr_size,
                    zephyr_actual_offset, injection_data, original_pos,
                    header_pos >>
    /\ UNCHANGED << insVars, stpVars >>

NextInjection ==
    \/ ReadUbootPointers
    \/ ImageNotFound
    \/ ReadBl31Size
    \/ ReadBl3Size
    \/ ReadZephyrSize
    \/ ReadInjection
    \/ InjectionNotFound
    \/ OpenOutput
    \/ OpenOriginal
    \/ CopyPrefix
    \/ WriteHeader
    \/ WritePayload
    \/ SeekOriginal
    \/ CopyTrailing
    \/ ReadError

---------------------------------------------------------------------------
(* ai_insights.py: the main thread and the one worker thread of the        *)
(* ThreadPoolExecutor.                                                     *)

\* The largest timeout given on the command line, in seconds.
MaxTimeout == 3
\* The largest number of choices in a response of the API.
MaxChoices == 2

\* What the process is started with: whether OPENAI_API_KEY is set, the
\* length of sys.argv, and sys.argv[3] (whether int() accepts it, and the
\* value it gives).
Argvs ==
    [api_key : BOOLEAN, argc : {3, 4}, timeout_is_int : BOOLEAN,
     timeout_arg : 0..MaxTimeout]

IdleInsights ==
    /\ ipc = "idle" /\ argv = [api_key |-> FALSE, argc |-> 3,
                               timeout_is_int |-> FALSE, timeout_arg |-> 0]
    /\ timeout = 0 /\ clock = 0
    /\ worker = "none" /\ response = 0 /\ insights = 0
    /\ printed = << >> /\ istatus = -1

InitInsights ==
    /\ ipc = "L40"
    /\ argv \in Argvs
    /\ timeout = 0 /\ clock = 0
    /\ worker = "none" /\ response = 0 /\ insights = 0
    /\ printed = << >> /\ istatus = -1

\* Lines 40-42: without an API key the module raises ValueError.
CheckApiKey ==
    /\ ipc = "L40"
    /\ IF argv.api_key
       THEN ipc' = "L153" /\ istatus' = istatus
       ELSE ipc' = "exited" /\ istatus' = 1
    /\ UNCHANGED << argv, timeout, clock, worker, response, insights, printed >>
    /\ UNCHANGED << injVars, stpVars >>

\* Lines 153-155: the usage message and exit status 1.
CheckArgv ==
    /\ ipc = "L153"
    /\ IF argv.argc # 4
       THEN /\ printed' = Append(printed, "usage")
            /\ ipc' = "exited" /\ istatus' = 1
       ELSE /\ printed' = printed
            /\ ipc' = "L159" /\ istatus' = istatus
    /\ UNCHANGED << argv, timeout, clock, worker, response, insights >>
    /\ UNCHANGED << injVars, stpVars >>

\* Line 159: timeout = int(sys.argv[3]); ValueError ends the process.
ParseTimeout ==
    /\ ipc = "L159"
    /\ IF argv.timeout_is_int
       THEN /\ timeout' = argv.timeout_arg
            /\ ipc' = "L161" /\ istatus' = istatus
       ELSE /\ timeout' = timeout
            /\ ipc' = "exited" /\ istatus' = 1
    /\ UNCHANGED << argv, clock, worker, response, insights, printed >>
    /\ UNCHANGED << injVars, stpVars >>

\* Lines 161-162: the with block is entered and the request is submitted
\* to a worker thread.
Submit ==
    /\ ipc = "L161"
    /\ worker' = "running"
    /\ clock' = 0
    /\ ipc' = "L164"
    /\ UNCHANGED << argv, timeout, response, insights, printed, istatus >>
    /\ UNCHANGED << injVars, stpVars >>

\* A second passes while the main thread waits in future.result.
Tick ==
    /\ ipc = "L164"
    /\ worker = "running"
    /\ clock < timeout
    /\ clock' = clock + 1
    /\ UNCHANGED << ipc, argv, timeout, worker, response, insights, printed,
                    istatus >>
    /\ UNCHANGED << injVars, stpVars >>

\* Lines 76-108, worker thread: the API answers with n choices; those that
\* hold C code are printed, and print_chatgpt_insights returns n.
WorkerResponse ==
    /\ worker = "running"
    /\ \E n \in 1..MaxChoices :
          /\ response' = n
          /\ printed' \in {printed, Append(printed, "insights")}
    /\ worker' = "done"
    /\ UNCHANGED << ipc, argv, timeout, clock, insights, istatus >>
    /\ UNCHANGED << injVars, stpVars >>

\* Lines 87-92, worker thread: the API call raises; the message is printed
\* and print_chatgpt_insights returns 0.
WorkerError ==
    /\ worker = "running"
    /\ \E msg \in {"rate limit", "error"} :
          printed' = Append(printed, msg)
    /\ response' = 0
    /\ worker' = "done"
    /\ UNCHANGED << ipc, argv, timeout, clock, insights, istatus >>
    /\ UNCHANGED << injVars, stpVars >>

\* Line 164: future.result returns the worker's value.
ResultReady ==
    /\ ipc = "L164"
    /\ worker = "done"
    /\ insights' = response
    /\ ipc' = "L169"
    /\ UNCHANGED << argv, timeout, clock, worker, response, printed, istatus >>
    /\ UNCHANGED << injVars, stpVars >>

\* Lines 165-166: the timeout elapsed with the request outstanding.
ResultTimeout ==
    /\ ipc = "L164"
    /\ worker = "running"
    /\ clock >= timeout
    /\ printed' = Append(printed, "API request timeout")
    /\ ipc' = "L167"
    /\ UNCHANGED << argv, timeout, clock, worker, response, insights, istatus >>
    /\ UNCHANGED << injVars, stpVars >>

\* Executor.__exit__ is shutdown(wait=True): it joins the worker thread.
ExecutorExit(status) ==
    /\ worker = "done"
    /\ ipc' = "exited"
    /\ istatus' = status
    /\ UNCHANGED << argv, timeout, clock, worker, response, insights, printed >>

\* Line 167: sys.exit(1) raises SystemExit inside the with block, which
\* leaves the block through the executor's __exit__.
ExitAfterTimeout ==
    /\ ipc = "L167"
    /\ ExecutorExit(1)
    /\ UNCHANGED << injVars, stpVars >>

\* Line 169: the with block ends, then sys.exit(0).
ExitNormally ==
    /\ ipc = "L169"
    /\ ExecutorExit(0)
    /\ UNCHANGED << injVars, stpVars >>

NextInsights ==
    \/ CheckApiKey
    \/ CheckArgv
    \/ ParseTimeout
    \/ Submit
    \/ Tick
    \/ WorkerResponse
    \/ WorkerError
    \/ ResultReady
    \/ ResultTimeout
    \/ ExitAfterTimeout
    \/ ExitNormally

---------------------------------------------------------------------------
(* imc_steps_manager.py: main evaluating "step_get_count('<file>')".       *)

\* The largest number of steps in a generated file.
MaxSteps == 3

\* The lists of at most MaxSteps steps; a step is held as its 'index'.
StepLists == UNION { [1..n -> 1..MaxSteps] : n \in 0..MaxSteps }

\* What the path may name.  kind: no file ("missing"), a file that is not
\* JSON ("invalid"), or JSON whose root is an "object", an "array", a
\* "string" or a "scalar" (number, true, false, null).  has_key: whether
\* 'imc_build_steps' in data is true (a key of the object, an element of the
\* array, a substring of the string).  value: what the key holds: a "list",
\* another value that has a len() ("sized": a string or an object), or one
\* that has none ("unsized").  steps: the entries of that value.
JsonFiles ==
    { [kind |-> k, has_key |-> FALSE, value |-> "unsized", steps |-> << >>] :
        k \in {"missing", "invalid", "object", "array", "string", "scalar"} }
    \cup { [kind |-> k, has_key |-> TRUE, value |-> "unsized", steps |-> << >>] :
        k \in {"object", "array", "string"} }
    \cup { [kind |-> "object", has_key |-> TRUE, value |-> v, steps |-> l] :
        v \in {"list", "sized"}, l \in StepLists }

IdleSteps ==
    /\ spc = "idle"
    /\ json_file = [kind |-> "missing", has_key |-> FALSE,
                    value |-> "unsized", steps |-> << >>]
    /\ result = -1 /\ sstatus = -1

InitSteps ==
    /\ spc = "L235"
    /\ json_file \in JsonFiles
    /\ result = -1 /\ sstatus = -1

\* Lines 100-110.  open or json.load raise for a missing or invalid file;
\* 'imc_build_steps' in data raises TypeError for a scalar root;
\* data['imc_build_steps'] raises TypeError for an array or string root;
\* len raises TypeError for a value without a length.  Every exception is
\* caught at line 107 and gives 1, as does the absent key at line 106.
step_get_count(f) ==
    IF f.kind \in {"missing", "invalid", "scalar"} THEN 1
    ELSE IF ~f.has_key THEN 1
    ELSE IF f.kind \in {"array", "string"} THEN 1
    ELSE IF f.value = "unsized" THEN 1
    ELSE Len(f.steps)

\* Line 235: result = eval(command).
EvalCommand ==
    /\ spc = "L235"
    /\ result' = step_get_count(json_file)
    /\ spc' = "L236"
    /\ UNCHANGED << json_file, sstatus >>
    /\ UNCHANGED << injVars, insVars >>

\* Lines 236-238: the result is printed and is the exit status.
PrintAndExit ==
    /\ spc = "L236"
    /\ sstatus' = result
    /\ spc' = "exited"
    /\ UNCHANGED << json_file, result >>
    /\ UNCHANGED << injVars, insVars >>

NextSteps ==
    \/ EvalCommand
    \/ PrintAndExit

---------------------------------------------------------------------------
(* The specifications.                                                     *)

Init == InitInjection /\ IdleInsights /\ IdleSteps
Next == NextInjection
Spec == Init /\ [][Next]_vars

InitI == IdleInjection /\ InitInsights /\ IdleSteps
NextI == NextInsights
SpecInsights == InitI /\ [][NextI]_vars

InitS == IdleInjection /\ IdleInsights /\ InitSteps
NextS == NextSteps
SpecSteps == InitS /\ [][NextS]_vars

---------------------------------------------------------------------------
(* What the claims speak of.                                               *)

\* The source image as it was when main started, the output file as it is
\* now, and whether the output path names a file other than the image.
Image0 == fs0[args.nvm].bytes
Output == fs[args.output].bytes
Separate == args.output # args.nvm
\* Whether the output path names neither input file.
Fresh == args.output \notin {args.nvm, args.zephyr}

\* A field of w bytes at byte offset off lies inside the byte string.
InBounds(b, off, w) == off + w <= BLen(b)

\* The little-endian fields of 2 and 4 bytes, where they lie inside.
U16(b, off) == ByteAt(b, off) + 256 * ByteAt(b, off + 1)
U32(b, off) ==
    ByteAt(b, off) + 256 * ByteAt(b, off + 1) + 65536 * ByteAt(b, off + 2)
    + 16777216 * ByteAt(b, off + 3)

\* The pointer chain as the specification states it.
size_field_offset(I) ==
    2 * (U16(I, 2 * UBOOT_high_ptr_words) * 65536
         + U16(I, 2 * UBOOT_low_ptr_words) + inner_nvm_section_offset)
payload_pair_offset(I) ==
    size_field_offset(I) + 2 * U32(I, size_field_offset(I)) + 8
injection_point(I) ==
    payload_pair_offset(I) + 4 + 2 * U32(I, payload_pair_offset(I))
old_payload_end(I) ==
    injection_point(I) + 4 + 2 * U32(I, injection_point(I))

\* Every read of the chain lies inside the image.
ChainInBounds(I) ==
    /\ InBounds(I, 2 * UBOOT_high_ptr_words, 2)
    /\ InBounds(I, 2 * UBOOT_low_ptr_words, 2)
    /\ InBounds(I, size_field_offset(I), 4)
    /\ InBounds(I, payload_pair_offset(I), 4)
    /\ InBounds(I, injection_point(I), 4)

\* The image holds the whole chain and the whole second payload.
WholeLayout(I) == ChainInBounds(I) /\ old_payload_end(I) <= BLen(I)

---------------------------------------------------------------------------
(* The claims.                                                             *)

\* C1: when main has written the output, the bytes of the output from
\* injection_point + 4 + len(P) on are the bytes of the source image from
\* old_payload_end on, whatever the length of the replacement payload P.
\* Stated for the runs in which the image holds the whole layout and the
\* output is a file of its own, where nothing but the composition decides.
C1_TrailingPreserved ==
    (pc = "done" /\ Fresh /\ WholeLayout(Image0)) =>
        SliceFrom(Output, injection_point(Image0) + 4 + BLen(injection_data))
            = SliceFrom(Image0, old_payload_end(Image0))

\* C2: when main has written the output, its first injection_point bytes are
\* the first injection_point bytes of the source image and the new size
\* header starts at byte offset injection_point of the output, also when
\* the injection point main computed lies at or beyond the end of the
\* image.  Stated for the runs whose output is a file of its own.
C2_PrefixPreserved ==
    (pc = "done" /\ Fresh) =>
        /\ Slice(Output, 0, zephyr_size_pointer)
              = Slice(Image0, 0, zephyr_size_pointer)
        /\ BLen(Slice(Output, 0, zephyr_size_pointer)) = zephyr_size_pointer
        /\ header_pos = zephyr_size_pointer

\* C3: round trip.  When the replacement payload is the image's own second
\* payload, I[injection_point + 4 : old_payload_end], the output main has
\* written is byte for byte the source image.
C3_RoundTrip ==
    (/\ pc = "done"
     /\ WholeLayout(Image0)
     /\ injection_data = Slice(Image0, injection_point(Image0) + 4,
                               old_payload_end(Image0))) =>
        Output = Image0

\* C4: the 4 bytes main writes as the size header decode, little-endian, to
\* ceil(len(P) / 2), that is n / 2 for an even length n and (n + 1) / 2 for
\* an odd one, and the len(P) bytes after them in the output are P; where the
\* output is a file of its own and the image reaches the injection point,
\* the header stands at the injection point.
C4_HeaderAndPayload ==
    LET n == BLen(injection_data)
        header == Slice(Output, header_pos, header_pos + 4)
    IN  /\ pc \in {"L75", "L76", "L77", "done"} =>
              /\ BLen(header) = 4
              /\ n % 2 = 0 => U32(header, 0) = n \div 2
              /\ n % 2 = 1 => U32(header, 0) = (n + 1) \div 2
              /\ (Separate /\ zephyr_size_pointer <= BLen(Image0)) =>
                    header_pos = zephyr_size_pointer
        /\ pc \in {"L76", "L77", "done"} =>
              Slice(Output, header_pos + 4, header_pos + 4 + n)
                  = injection_data

\* C4's case: main has finished on an image that holds the whole layout,
\* with a payload of 7 bytes, and the header in the output holds 4.
C4_Witness ==
    /\ pc = "done"
    /\ Fresh
    /\ WholeLayout(Image0)
    /\ BLen(injection_data) = 7
    /\ header_pos = injection_point(Image0)
    /\ U32(Slice(Output, header_pos, header_pos + 4), 0) = 4

\* C5: for an image whose reads are in bounds, the offsets main computes are
\* those of the stated chain, and injection_point and old_payload_end are
\* the offsets main uses as the end of the copied prefix and as the start
\* of the copied trailing bytes (the position original_file is moved to
\* before the last read).  Stated for the runs whose output is a file of
\* its own.
C5_ChainAndOffsets ==
    (pc = "L77" /\ Fresh /\ ChainInBounds(Image0)) =>
        /\ UBOOT_pointer_address = size_field_offset(Image0)
        /\ u_boot_pointer_address = payload_pair_offset(Image0)
        /\ zephyr_size_pointer = injection_point(Image0)
        /\ zephyr_size_pointer + 4 + zephyr_size = old_payload_end(Image0)
        /\ header_pos = injection_point(Image0)
        /\ original_pos = old_payload_end(Image0)

\* C6: a read_field call returns only when the field lies inside the image
\* (byte_offset + width <= len(image)), so main gets past a read, and to an
\* output, only with a pointer chain that stays inside the image.
C6_ReadsInBounds ==
    /\ pc \in {"L46", "L54", "L56", "L68", "done"} =>
          /\ InBounds(Image0, UBOOT_high_ptr_address, 2)
          /\ InBounds(Image0, UBOOT_low_ptr_address, 2)
    /\ pc \in {"L54", "L56", "L68", "done"} =>
          InBounds(Image0, UBOOT_pointer_address, 4)
    /\ pc \in {"L56", "L68", "done"} =>
          InBounds(Image0, u_boot_pointer_address, 4)
    /\ pc \in {"L68", "done"} =>
          InBounds(Image0, zephyr_size_pointer, 4)

\* C7: the destination is created or truncated only once every read of main
\* has succeeded: while a read is still to come (the last one is that of
\* line 77, which ends the run) and after a failure at whatever step, the
\* destination path is as main found it, with no file created, truncated
\* or half written.  Stated for the runs whose output is a file of its own.
C7_NoPartialOutput ==
    (Fresh /\ pc # "done") => fs[args.output] = fs0[args.output]

\* C8: whatever the three paths are and however the run ends, the source
\* image file holds after main the bytes it held before.
C8_SourceUntouched ==
    pc \in {"done", "failed"} => fs[args.nvm] = fs0[args.nvm]

\* C9: once the main thread has reported the timeout, the process can exit
\* with status 1 at once: its exit does not wait for the worker's request.
C9_ExitDoesNotWait ==
    ipc = "L167" => ENABLED ExitAfterTimeout

\* C10: step_get_count returns the number of entries under
\* 'imc_build_steps', and 0 when the file is missing, is not JSON or has no
\* such root key.
C10_CountOrZero ==
    spc \in {"L236", "exited"} =>
        /\ (json_file.kind = "object" /\ json_file.has_key
            /\ json_file.value = "list") =>
                result = Len(json_file.steps)
        /\ (\/ json_file.kind \in {"missing", "invalid"}
            \/ json_file.kind = "object" /\ ~json_file.has_key) =>
                result = 0

=============================================================================
